---- MODULE Spec2Model ----
(***************************************************************************)
(* lyncx-server (src/server.js): an Express application that guards its    *)
(* routes with a bearer-token gate (authenticateToken, jsonwebtoken) and   *)
(* keeps one user document per subject id in a Firestore collection.       *)
(*                                                                         *)
(* Time is the value of Date.now() in milliseconds, counted from a         *)
(* reference instant that is a midnight UTC, so that second and day        *)
(* boundaries of the model are those of the wall clock.                    *)
(*                                                                         *)
(* A handler is one action from the arrival of its request to its first    *)
(* await (the gate and the code before an await run in one callback), one  *)
(* action for an awaited read taking effect at the store, and one action   *)
(* for an awaited write taking effect there, and one action for each        *)
(* continuation.  Other requests and the clock move between the actions of *)
(* one handler.  A request whose body express.json() cannot parse is       *)
(* answered by the error-handling middleware before the gate runs.         *)
(* Every specification of the store routes has two requests in             *)
(* flight: Spec runs the update routes, SpecCreate the create route,        *)
(* SpecProfile the profile routes, SpecStats the stats route around the    *)
(* end of a subscription, SpecRace a plan update and a profile update      *)
(* suspended together, SpecTwo every store route for two users with a      *)
(* store that may fail.  SpecGate runs the gate under every kind of        *)
(* Authorization header and follows the clock past a token's expiry.       *)
(***************************************************************************)
EXTENDS Integers, Sequences, FiniteSets, TLC

VARIABLES
    clock,   \* Date.now()
    ticks,   \* how many times the environment advanced the clock
    store,   \* the Firestore collection "users": document id -> document
    req,     \* handlers suspended at an await: slot -> request context
    res,     \* the response most recently sent
    tz       \* the time zone of the process: local time minus UTC, milliseconds

vars == <<clock, ticks, store, req, res, tz>>

----------------------------------------------------------------------------
(* Bounds of the model *)

\* clock advances in a run of the store routes, and in a run of the gate
MaxTicks == 1
MaxGateTicks == 3

\* the last instant the clock is followed to: two weeks, in milliseconds
Horizon == 1209600000

----------------------------------------------------------------------------
(* JSON values as the handlers see them *)

Undefined == [kind |-> "undefined"]
Null == [kind |-> "null"]
Str(s) == [kind |-> "string", str |-> s]

\* req.body of a request whose body text is not JSON: express.json() does not
\* produce a body for it, it fails
Unparsed == [kind |-> "unparsed"]

\* JavaScript truthiness of the values above: undefined, null and "" are falsy
Truthy(v) == v \notin {Undefined, Null, Str("")}

\* the JavaScript expression  v || null
OrNull(v) == IF Truthy(v) THEN v ELSE Null

----------------------------------------------------------------------------
(* Dates *)

DayMs == 1000 * 60 * 60 * 24
TrialMs == 7 * 24 * 60 * 60 * 1000

\* Date.prototype.toISOString: the instant written out as calendar fields
\* (the date field counts days from the reference instant)
toISOString(t) ==
    [kind |-> "string",
     date |-> [day  |-> t \div DayMs,
               hour |-> (t % DayMs) \div 3600000,
               min  |-> (t % 3600000) \div 60000,
               sec  |-> (t % 60000) \div 1000,
               ms   |-> t % 1000]]

----------------------------------------------------------------------------
(* jsonwebtoken as server.js uses it: HS256 with process.env.JWT_SECRET *)

JWT_SECRET == "JWT_SECRET"
OtherKey == "not-the-secret"

\* expiresIn: "7d", in seconds
TokenTtlSec == 7 * 24 * 60 * 60

\* the HMAC of a payload under a key, kept symbolic: equal signatures mean
\* equal key and equal payload
Hmac(payload, key) == [key |-> key, over |-> payload]

\* a token string "header.payload.signature"
Jwt(payload, sig) == [kind |-> "string", jwt |-> [payload |-> payload, sig |-> sig]]

IsJwt(token) == "jwt" \in DOMAIN token

\* jwt.sign({ uid, email }, secret, { expiresIn: "7d" }) evaluated at time now
jwtSign(uid, email, key, now) ==
    LET iat == now \div 1000
        payload == [uid |-> uid, email |-> email, iat |-> iat, exp |-> iat + TokenTtlSec]
    IN  Jwt(payload, Hmac(payload, key))

\* jwt.verify with the expiry test off by one: a token is still accepted in
\* the second of its exp
jwtVerifyErrLate(token, key, now) ==
    IF ~IsJwt(token) THEN "jwt malformed"
    ELSE IF token.jwt.sig # Hmac(token.jwt.payload, key) THEN "invalid signature"
    ELSE IF now \div 1000 > token.jwt.payload.exp THEN "jwt expired"
    ELSE "none"

\* jwt.verify(token, secret, cb) evaluated at time now: the err argument of cb
jwtVerifyErr(token, key, now) ==
    IF ~IsJwt(token) THEN "jwt malformed"
    ELSE IF token.jwt.sig # Hmac(token.jwt.payload, key) THEN "invalid signature"
    ELSE IF now \div 1000 >= token.jwt.payload.exp THEN "jwt expired"
    ELSE "none"

\* the decoded argument of cb when err is null
jwtDecoded(token) == token.jwt.payload

----------------------------------------------------------------------------
(* authenticateToken *)

NoHeader == Undefined
Header(parts) == [kind |-> "string", parts |-> parts]

\* authHeader && authHeader.split(" ")[1]
headerToken(authHeader) ==
    IF authHeader = NoHeader THEN Undefined
    ELSE IF Len(authHeader.parts) >= 2 THEN authHeader.parts[2]
    ELSE Undefined

NoUser == Undefined

\* the gate with jwt.decode in the place of jwt.verify: the payload is read,
\* the signature and the expiry are not checked
authenticateTokenDecodeOnly(authHeader, now) ==
    LET token == headerToken(authHeader) IN
    IF ~Truthy(token)
    THEN [status |-> 401, error |-> "Access token required", user |-> NoUser, next |-> FALSE]
    ELSE IF ~IsJwt(token)
    THEN [status |-> 403, error |-> "Invalid or expired token", user |-> NoUser, next |-> FALSE]
    ELSE [status |-> 0, error |-> "",
          user |-> [uid |-> jwtDecoded(token).uid, email |-> jwtDecoded(token).email],
          next |-> TRUE]

\* the gate with req.user.email filled from decoded.uid
authenticateTokenEmailSlip(authHeader, now) ==
    LET token == headerToken(authHeader) IN
    IF ~Truthy(token)
    THEN [status |-> 401, error |-> "Access token required", user |-> NoUser, next |-> FALSE]
    ELSE IF jwtVerifyErr(token, JWT_SECRET, now) # "none"
    THEN [status |-> 403, error |-> "Invalid or expired token", user |-> NoUser, next |-> FALSE]
    ELSE [status |-> 0, error |-> "",
          user |-> [uid |-> jwtDecoded(token).uid, email |-> jwtDecoded(token).uid],
          next |-> TRUE]

\* The outcome of the gate for a request carrying authHeader at time now:
\* the status it answers with (0 when it calls next()) and req.user
authenticateToken(authHeader, now) ==
    LET token == headerToken(authHeader) IN
    IF ~Truthy(token)
    THEN [status |-> 401, error |-> "Access token required", user |-> NoUser, next |-> FALSE]
    ELSE IF jwtVerifyErr(token, JWT_SECRET, now) # "none"
    THEN [status |-> 403, error |-> "Invalid or expired token", user |-> NoUser, next |-> FALSE]
    ELSE [status |-> 0, error |-> "",
          user |-> [uid |-> jwtDecoded(token).uid, email |-> jwtDecoded(token).email],
          next |-> TRUE]

----------------------------------------------------------------------------
(* The router: Express tries the layers in the order server.js registers them *)

\* the path of a request: its text in lower case, the positions of the
\* letters the request writes as capitals, and whether one more "/" ends it
Path(lower, caps, slash) == [lower |-> lower, caps |-> caps, slash |-> slash]

\* the path written exactly as the routes are registered
Exact(text) == Path(text, {}, FALSE)

\* String.prototype.toLowerCase on a path
toLowerCase(path) == [path EXCEPT !.caps = {}]

\* a layer takes (req, res) or, when error is TRUE, (err, req, res, next)
Layer(method, path, handler, error) ==
    [method |-> method, path |-> path, handler |-> handler, error |-> error]

\* cors() comes first: it answers a preflight (OPTIONS) request itself and
\* passes every other request on.  express.json() answers no request
Layers ==
    << Layer("OPTIONS", "*",                     "cors",          FALSE),
       Layer("GET",  "/api/health",              "health",        FALSE),
       Layer("GET",  "/api/auth/verify",         "authVerify",    FALSE),
       Layer("POST", "/api/auth/logout",         "logout",        FALSE),
       Layer("GET",  "/api/user/profile",        "getProfile",    FALSE),
       Layer("POST", "/api/user/create",         "createUser",    FALSE),
       Layer("PUT",  "/api/user/plan",           "updatePlan",    FALSE),
       Layer("PUT",  "/api/user/profile",        "updateProfile", FALSE),
       Layer("GET",  "/api/user/stats",          "getStats",      FALSE),
       Layer("ALL",  "*",                        "errorHandler",  TRUE),
       Layer("ALL",  "*",                        "notFound",      FALSE),
       Layer("POST", "/api/auth/generate-token", "generateToken", FALSE) >>

\* a route takes the requests of its method, and a GET route those of HEAD
\* too (no route registers HEAD)
MethodMatches(layerMethod, method) ==
    \/ layerMethod \in {"ALL", method}
    \/ layerMethod = "GET" /\ method = "HEAD"

\* Express matches a path without regard to case and lets one "/" follow it
\* (neither "case sensitive routing" nor "strict routing" is set)
PathMatches(layerPath, path) ==
    \/ layerPath = "*"
    \/ toLowerCase(path) \in {Path(layerPath, {}, FALSE), Path(layerPath, {}, TRUE)}

\* a request that carries no error is offered to the layers that are not
\* error handlers
Matches(layer, method, path) ==
    /\ ~layer.error
    /\ MethodMatches(layer.method, method)
    /\ PathMatches(layer.path, path)

\* a request for which next(err) was called is offered to the error handlers
\* only
MatchesError(layer, method, path) ==
    /\ layer.error
    /\ MethodMatches(layer.method, method)
    /\ PathMatches(layer.path, path)

\* the handler that answers a request: the first layer that matches it
Dispatch(method, path) ==
    LET hits == {i \in 1..Len(Layers) : Matches(Layers[i], method, path)}
        first == CHOOSE i \in hits : \A j \in hits : i <= j
    IN  Layers[first].handler

\* the handler that answers a request whose body express.json() failed on:
\* the first error handler
DispatchError(method, path) ==
    LET hits == {i \in 1..Len(Layers) : MatchesError(Layers[i], method, path)}
        first == CHOOSE i \in hits : \A j \in hits : i <= j
    IN  Layers[first].handler

----------------------------------------------------------------------------
(* Requests and responses *)

\* the handlers that can be suspended at an await at the same time
Procs == {"r1", "r2"}

Idle == [pc |-> "idle"]

\* a new request is given the first free slot
Free(p) == req[p] = Idle /\ (p = "r2" => req["r1"] # Idle)

NoResponse ==
    [method |-> "", path |-> Exact(""), handler |-> "none", hdr |-> NoHeader,
     body |-> Undefined, user |-> NoUser, ran |-> FALSE, status |-> 0, out |-> Undefined]

\* the event loop runs one callback at a time: nothing else runs while a
\* response is being written
Quiet == res = NoResponse

\* res.status(status).json(out) for the request (method, path, hdr, body) that was
\* dispatched to handler; user is req.user, ran tells whether the gate called next()
SendTo(method, path, handler, hdr, body, user, ran, status, out) ==
    res' = [method |-> method, path |-> path, handler |-> handler,
             hdr |-> hdr, body |-> body, user |-> user, ran |-> ran,
             status |-> status, out |-> out]

\* a response of the route handler itself, which runs once the gate called next()
Respond(method, path, handler, hdr, body, user, status, out) ==
    SendTo(method, path, handler, hdr, body, user, TRUE, status, out)

\* the "*" handler
NotFound(method, path, hdr, body) ==
    SendTo(method, path, "notFound", hdr, body, NoUser, FALSE, 404,
           [error |-> "Endpoint not found"])

\* the error-handling middleware: the answer to a request whose body
\* express.json() failed on; the gate has not run and req.user is not set
ErrorHandler(method, path, hdr) ==
    SendTo(method, path, DispatchError(method, path), hdr, Unparsed, NoUser, FALSE, 500,
           [error |-> "Internal server error"])

\* the answer of the gate when it does not call next()
Rejected(method, path, handler, hdr, body, gate) ==
    SendTo(method, path, handler, hdr, body, gate.user, FALSE, gate.status,
           [error |-> gate.error])

----------------------------------------------------------------------------
(* The clock *)

\* the environment advances the clock by d, at most limit times in a run
Tick(d, limit) ==
    /\ Quiet
    /\ ticks < limit
    /\ clock + d <= Horizon
    /\ clock' = clock + d
    /\ ticks' = ticks + 1
    /\ UNCHANGED <<store, req, res, tz>>

\* the response has left
Sent ==
    /\ res # NoResponse
    /\ res' = NoResponse
    /\ UNCHANGED <<clock, ticks, store, req, tz>>

----------------------------------------------------------------------------
(* Handlers that touch no store *)

\* GET /api/health: the gate, then the handler
Health(method, path, hdr) ==
    LET gate == authenticateToken(hdr, clock) IN
    /\ Quiet
    /\ Dispatch(method, path) = "health"
    /\ IF ~gate.next
       THEN Rejected(method, path, "health", hdr, Undefined, gate)
       ELSE Respond(method, path, "health", hdr, Undefined, gate.user, 200,
                    [status |-> "healthy", user |-> gate.user.email,
                     timestamp |-> toISOString(clock), server |-> "lyncx-api"])
    /\ UNCHANGED <<clock, ticks, store, req, tz>>

\* GET /api/auth/verify
AuthVerify(method, path, hdr) ==
    LET gate == authenticateToken(hdr, clock) IN
    /\ Quiet
    /\ Dispatch(method, path) = "authVerify"
    /\ IF ~gate.next
       THEN Rejected(method, path, "authVerify", hdr, Undefined, gate)
       ELSE Respond(method, path, "authVerify", hdr, Undefined, gate.user, 200,
                    [valid |-> TRUE, user |-> gate.user])
    /\ UNCHANGED <<clock, ticks, store, req, tz>>

\* POST /api/auth/logout
Logout(method, path, hdr) ==
    LET gate == authenticateToken(hdr, clock) IN
    /\ Quiet
    /\ Dispatch(method, path) = "logout"
    /\ IF ~gate.next
       THEN Rejected(method, path, "logout", hdr, Undefined, gate)
       ELSE Respond(method, path, "logout", hdr, Undefined, gate.user, 200,
                    [message |-> "Logged out successfully"])
    /\ UNCHANGED <<clock, ticks, store, req, tz>>

\* the body of the handler registered for POST /api/auth/generate-token
generateToken(method, path, hdr, body) ==
    IF ~Truthy(body.uid) \/ ~Truthy(body.email)
    THEN Respond(method, path, "generateToken", hdr, body, NoUser, 400,
                 [error |-> "Missing required user data"])
    ELSE Respond(method, path, "generateToken", hdr, body, NoUser, 200,
                 [token |-> jwtSign(body.uid, body.email, JWT_SECRET, clock)])

\* a request that the registration of POST /api/auth/generate-token matches:
\* the first layer that matches it answers
GenerateToken(method, path, hdr, body) ==
    /\ Quiet
    /\ \E i \in 1..Len(Layers) :
          Layers[i].handler = "generateToken" /\ Matches(Layers[i], method, path)
    /\ IF body = Unparsed
       THEN ErrorHandler(method, path, hdr)
       ELSE IF Dispatch(method, path) # "generateToken"
       THEN NotFound(method, path, hdr, body)
       ELSE generateToken(method, path, hdr, body)
    /\ UNCHANGED <<clock, ticks, store, req, tz>>

\* a preflight request: cors() answers it 204 without a body, before the
\* body parser, the gate and the routes
Preflight(method, path, hdr) ==
    /\ Quiet
    /\ Dispatch(method, path) = "cors"
    /\ SendTo(method, path, "cors", hdr, Undefined, NoUser, FALSE, 204, Undefined)
    /\ UNCHANGED <<clock, ticks, store, req, tz>>

\* any request with a body that is not JSON that cors() passes on:
\* express.json() calls next(err) before the gate and the routes, and the
\* error handler answers
BodyParseError(method, path, hdr) ==
    /\ Quiet
    /\ Dispatch(method, path) # "cors"
    /\ ErrorHandler(method, path, hdr)
    /\ UNCHANGED <<clock, ticks, store, req, tz>>

\* a request no route is registered for
NoRoute(method, path, hdr) ==
    /\ Quiet
    /\ Dispatch(method, path) = "notFound"
    /\ NotFound(method, path, hdr, Undefined)
    /\ UNCHANGED <<clock, ticks, store, req, tz>>

----------------------------------------------------------------------------
(* The document store: db.collection("users").doc(id) *)

NoDoc == [exists |-> FALSE]

\* DocumentReference.set(data): the document becomes data, whatever was there
firestoreSet(id, data) == [store EXCEPT ![id] = data]

\* an update that replaces the document instead of merging into it
firestoreUpdateNoMerge(id, fields) == [store EXCEPT ![id] = fields]

\* DocumentReference.update(fields) on an existing document: every top-level
\* field supplied replaces the stored one, the others stay
firestoreUpdate(id, fields) ==
    [store EXCEPT ![id] =
        [f \in DOMAIN store[id] \cup DOMAIN fields |->
            IF f \in DOMAIN fields THEN fields[f] ELSE store[id][f]]]

----------------------------------------------------------------------------
(* await db.collection("users").doc(req.user.uid).get() *)

\* what the continuation of a failed store call finds: the promise rejected
GetFailed == [failed |-> TRUE]

\* the gate let the request through and the handler called get(): it is
\* suspended until the read takes effect and its continuation runs
Awaiting(method, path, hdr, body, user, handler) ==
    [pc |-> "get", handler |-> handler, method |-> method, path |-> path, hdr |-> hdr,
     body |-> body, user |-> user]

\* the read takes effect at the store: the snapshot is the document as it
\* is now, or the call fails when the store does not answer (up = FALSE)
AwaitGet(p, handler, up) ==
    /\ Quiet
    /\ req[p].pc = "get"
    /\ req[p].handler = handler
    /\ req' = [req EXCEPT ![p] =
                  [pc |-> "got", handler |-> handler, method |-> req[p].method,
                   path |-> req[p].path, hdr |-> req[p].hdr,
                   body |-> req[p].body, user |-> req[p].user,
                   snap |-> IF up THEN store[req[p].user.uid] ELSE GetFailed]]
    /\ UNCHANGED <<clock, ticks, store, res, tz>>

----------------------------------------------------------------------------
(* await db.collection("users").doc(req.user.uid).set(data) / .update(data) *)

\* the handler r called set() or update() and the call has reached the store:
\* applied tells whether the document was written.  The handler is suspended
\* until its continuation runs
Written(r, applied) ==
    [pc |-> "written", handler |-> r.handler, method |-> r.method, path |-> r.path,
     hdr |-> r.hdr, body |-> r.body, user |-> r.user, data |-> r.data,
     applied |-> applied]

----------------------------------------------------------------------------
(* POST /api/user/create *)

\* const { planType = "trial" } = req.body
planTypeOrDefault(body) == IF body.planType = Undefined THEN Str("trial") ELSE body.planType

\* newUserData, built with now = new Date() and, for a trial, a second reading
\* Date.now() = now2 of the clock
newUserData(user, planType, now, now2) ==
    [uid |-> user.uid,
     email |-> user.email,
     displayName |-> Null,
     photoURL |-> Null,
     plan |-> [type |-> planType,
               status |-> Str("active"),
               subscriptionStart |-> toISOString(now),
               subscriptionEnd |-> IF planType = Str("trial")
                                   THEN toISOString(now2 + TrialMs)
                                   ELSE Null,
               lastUpdated |-> toISOString(now)],
     createdAt |-> toISOString(now),
     lastLogin |-> toISOString(now)]

\* the request arrives: the gate, and the handler up to its first await
CreateUser(p, method, path, hdr, body) ==
    LET gate == authenticateToken(hdr, clock)
        M == method
        P == path
    IN
    /\ Quiet
    /\ Free(p)
    /\ Dispatch(M, P) = "createUser"
    /\ IF body = Unparsed
       THEN ErrorHandler(M, P, hdr) /\ UNCHANGED req
       ELSE IF ~gate.next
       THEN Rejected(M, P, "createUser", hdr, body, gate) /\ UNCHANGED req
       ELSE /\ req' = [req EXCEPT ![p] = Awaiting(M, P, hdr, body, gate.user, "createUser")]
            /\ UNCHANGED res
    /\ UNCHANGED <<clock, ticks, store, tz>>

\* the existence check takes effect
CreateUserGet(p, up) == AwaitGet(p, "createUser", up)

\* the continuation of the existence check: 500 when it failed, 409 when it
\* found a document, otherwise newUserData (the clock is read twice, drift
\* milliseconds apart) and the call of set()
CreateUserBuild(p, drift) ==
    LET M == req[p].method
        P == req[p].path
    IN
    /\ Quiet
    /\ req[p].pc = "got"
    /\ req[p].handler = "createUser"
    /\ IF req[p].snap = GetFailed
       THEN /\ Respond(M, P, "createUser", req[p].hdr, req[p].body, req[p].user, 500,
                       [error |-> "Failed to create user"])
            /\ req' = [req EXCEPT ![p] = Idle]
            /\ UNCHANGED <<clock, ticks>>
       ELSE IF req[p].snap # NoDoc
       THEN /\ Respond(M, P, "createUser", req[p].hdr, req[p].body, req[p].user, 409,
                       [error |-> "User already exists"])
            /\ req' = [req EXCEPT ![p] = Idle]
            /\ UNCHANGED <<clock, ticks>>
       ELSE /\ drift > 0 => ticks < MaxTicks
            /\ clock' = clock + drift
            /\ ticks' = IF drift > 0 THEN ticks + 1 ELSE ticks
            /\ req' = [req EXCEPT ![p] =
                          [pc |-> "set", handler |-> "createUser", method |-> M,
                           path |-> P, hdr |-> req[p].hdr,
                           body |-> req[p].body, user |-> req[p].user,
                           data |-> newUserData(req[p].user, planTypeOrDefault(req[p].body),
                                                clock, clock + drift)]]
            /\ UNCHANGED res
    /\ UNCHANGED <<store, tz>>

\* the write keyed by the uid of the request body when the body has one
CreateUserSetKeyedByBody(p, up) ==
    LET id == IF "uid" \in DOMAIN req[p].body /\ Truthy(req[p].body.uid)
              THEN req[p].body.uid ELSE req[p].user.uid
    IN
    /\ Quiet
    /\ req[p].pc = "set"
    /\ store' = IF up THEN firestoreSet(id, req[p].data) ELSE store
    /\ req' = [req EXCEPT ![p] = Written(req[p], up)]
    /\ UNCHANGED <<clock, ticks, res, tz>>

\* the write takes effect at the store, or is lost when the store does not
\* answer (up = FALSE); the handler stays suspended
CreateUserSet(p, up) ==
    /\ Quiet
    /\ req[p].pc = "set"
    /\ store' = IF up THEN firestoreSet(req[p].user.uid, req[p].data) ELSE store
    /\ req' = [req EXCEPT ![p] = Written(req[p], up)]
    /\ UNCHANGED <<clock, ticks, res, tz>>

\* the continuation of set(): 201 when the promise resolved, the catch block
\* when it rejected (the write was lost, or it was applied and its
\* acknowledgement failed: ack = FALSE)
CreateUserAnswer(p, ack) ==
    /\ Quiet
    /\ req[p].pc = "written"
    /\ req[p].handler = "createUser"
    /\ IF req[p].applied /\ ack
       THEN Respond(req[p].method, req[p].path, "createUser", req[p].hdr, req[p].body,
                    req[p].user, 201,
                    [message |-> "User created successfully", user |-> req[p].data])
       ELSE Respond(req[p].method, req[p].path, "createUser", req[p].hdr, req[p].body,
                    req[p].user, 500, [error |-> "Failed to create user"])
    /\ req' = [req EXCEPT ![p] = Idle]
    /\ UNCHANGED <<clock, ticks, store, tz>>

----------------------------------------------------------------------------
(* PUT /api/user/plan *)

\* the list of plans with a fifth entry
validPlansAndEnterprise ==
    {Str("free"), Str("trial"), Str("pro"), Str("plus"), Str("enterprise")}

\* the list with one of the four types forgotten
validPlansWithoutFree == {Str("trial"), Str("pro"), Str("plus")}

validPlans == {Str("free"), Str("trial"), Str("pro"), Str("plus")}

\* updatedPlan giving a trial the seven days that the create route gives it
updatedPlanTrialExpiry(body, now) ==
    [type |-> body.planType,
     status |-> Str("active"),
     subscriptionStart |-> toISOString(now),
     subscriptionEnd |-> IF Truthy(body.subscriptionEnd) THEN body.subscriptionEnd
                         ELSE IF body.planType = Str("trial") THEN toISOString(now + TrialMs)
                         ELSE Null,
     stripeCustomerId |-> OrNull(body.stripeCustomerId),
     lastUpdated |-> toISOString(now)]

updatedPlan(body, now) ==
    [type |-> body.planType,
     status |-> Str("active"),
     subscriptionStart |-> toISOString(now),
     subscriptionEnd |-> OrNull(body.subscriptionEnd),
     stripeCustomerId |-> OrNull(body.stripeCustomerId),
     lastUpdated |-> toISOString(now)]

\* the request arrives: the gate, the validation, updatedPlan and the call of
\* update() (nothing is awaited before it)
UpdatePlan(p, method, path, hdr, body) ==
    LET gate == authenticateToken(hdr, clock)
        M == method
        P == path
    IN
    /\ Quiet
    /\ Free(p)
    /\ Dispatch(M, P) = "updatePlan"
    /\ IF body = Unparsed
       THEN ErrorHandler(M, P, hdr) /\ UNCHANGED req
       ELSE IF ~gate.next
       THEN Rejected(M, P, "updatePlan", hdr, body, gate) /\ UNCHANGED req
       ELSE IF body.planType \notin validPlans
       THEN /\ Respond(M, P, "updatePlan", hdr, body, gate.user, 400,
                       [error |-> "Invalid plan type"])
            /\ UNCHANGED req
       ELSE /\ req' = [req EXCEPT ![p] =
                          [pc |-> "update", handler |-> "updatePlan", method |-> M,
                           path |-> P, hdr |-> hdr,
                           body |-> body, user |-> gate.user,
                           data |-> [plan |-> updatedPlan(body, clock),
                                     lastLogin |-> toISOString(clock)]]]
            /\ UNCHANGED res
    /\ UNCHANGED <<clock, ticks, store, tz>>

\* the update takes effect at the store; it does not when there is no
\* document or the store does not answer.  The handler stays suspended
UpdatePlanWrite(p, up) ==
    LET id == req[p].user.uid
        applied == up /\ store[id] # NoDoc
    IN
    /\ Quiet
    /\ req[p].pc = "update"
    /\ req[p].handler = "updatePlan"
    /\ store' = IF applied THEN firestoreUpdate(id, req[p].data) ELSE store
    /\ req' = [req EXCEPT ![p] = Written(req[p], applied)]
    /\ UNCHANGED <<clock, ticks, res, tz>>

\* the continuation of update(): 200 when the promise resolved, the catch
\* block when it rejected
UpdatePlanAnswer(p, ack) ==
    /\ Quiet
    /\ req[p].pc = "written"
    /\ req[p].handler = "updatePlan"
    /\ IF req[p].applied /\ ack
       THEN Respond(req[p].method, req[p].path, "updatePlan", req[p].hdr, req[p].body,
                    req[p].user, 200,
                    [message |-> "Plan updated successfully", plan |-> req[p].data.plan])
       ELSE Respond(req[p].method, req[p].path, "updatePlan", req[p].hdr, req[p].body,
                    req[p].user, 500, [error |-> "Failed to update plan"])
    /\ req' = [req EXCEPT ![p] = Idle]
    /\ UNCHANGED <<clock, ticks, store, tz>>

----------------------------------------------------------------------------
(* PUT /api/user/profile *)

\* updates with displayName and photoURL written even when the body omits them
updatesEveryField(body, now) ==
    [lastLogin |-> toISOString(now),
     displayName |-> OrNull(body.displayName),
     photoURL |-> OrNull(body.photoURL)]

\* updates: lastLogin, and displayName and photoURL when the body has them
updates(body, now) ==
    [f \in {"lastLogin"}
           \cup (IF body.displayName # Undefined THEN {"displayName"} ELSE {})
           \cup (IF body.photoURL # Undefined THEN {"photoURL"} ELSE {}) |->
        IF f = "lastLogin" THEN toISOString(now) ELSE body[f]]

\* the request arrives: the gate, updates and the call of update()
UpdateProfile(p, method, path, hdr, body) ==
    LET gate == authenticateToken(hdr, clock)
        M == method
        P == path
    IN
    /\ Quiet
    /\ Free(p)
    /\ Dispatch(M, P) = "updateProfile"
    /\ IF body = Unparsed
       THEN ErrorHandler(M, P, hdr) /\ UNCHANGED req
       ELSE IF ~gate.next
       THEN Rejected(M, P, "updateProfile", hdr, body, gate) /\ UNCHANGED req
       ELSE /\ req' = [req EXCEPT ![p] =
                          [pc |-> "update", handler |-> "updateProfile", method |-> M,
                           path |-> P, hdr |-> hdr,
                           body |-> body, user |-> gate.user,
                           data |-> updates(body, clock)]]
            /\ UNCHANGED res
    /\ UNCHANGED <<clock, ticks, store, tz>>

\* the update takes effect at the store, or does not (no document, or the
\* store does not answer); the handler stays suspended
UpdateProfileWrite(p, up) ==
    LET id == req[p].user.uid
        applied == up /\ store[id] # NoDoc
    IN
    /\ Quiet
    /\ req[p].pc = "update"
    /\ req[p].handler = "updateProfile"
    /\ store' = IF applied THEN firestoreUpdate(id, req[p].data) ELSE store
    /\ req' = [req EXCEPT ![p] = Written(req[p], applied)]
    /\ UNCHANGED <<clock, ticks, res, tz>>

\* the continuation of update(): 200 when the promise resolved, the catch
\* block when it rejected
UpdateProfileAnswer(p, ack) ==
    /\ Quiet
    /\ req[p].pc = "written"
    /\ req[p].handler = "updateProfile"
    /\ IF req[p].applied /\ ack
       THEN Respond(req[p].method, req[p].path, "updateProfile", req[p].hdr,
                    req[p].body, req[p].user, 200,
                    [message |-> "Profile updated successfully"])
       ELSE Respond(req[p].method, req[p].path, "updateProfile", req[p].hdr,
                    req[p].body, req[p].user, 500,
                    [error |-> "Failed to update profile"])
    /\ req' = [req EXCEPT ![p] = Idle]
    /\ UNCHANGED <<clock, ticks, store, tz>>

----------------------------------------------------------------------------
(* GET /api/user/profile *)

\* the request arrives: the gate, and the handler up to its await
GetProfile(p, method, path, hdr) ==
    LET gate == authenticateToken(hdr, clock)
        M == method
        P == path
    IN
    /\ Quiet
    /\ Free(p)
    /\ Dispatch(M, P) = "getProfile"
    /\ IF ~gate.next
       THEN Rejected(M, P, "getProfile", hdr, Undefined, gate) /\ UNCHANGED req
       ELSE /\ req' = [req EXCEPT ![p] = Awaiting(M, P, hdr, Undefined, gate.user, "getProfile")]
            /\ UNCHANGED res
    /\ UNCHANGED <<clock, ticks, store, tz>>

\* the read takes effect
GetProfileGet(p, up) == AwaitGet(p, "getProfile", up)

\* the continuation answers from the snapshot it was given
GetProfileAnswer(p) ==
    LET M == req[p].method
        P == req[p].path
        userData == req[p].snap
    IN
    /\ Quiet
    /\ req[p].pc = "got"
    /\ req[p].handler = "getProfile"
    /\ IF userData = GetFailed
       THEN Respond(M, P, "getProfile", req[p].hdr, Undefined, req[p].user, 500,
                    [error |-> "Failed to get user profile"])
       ELSE IF userData = NoDoc
       THEN Respond(M, P, "getProfile", req[p].hdr, Undefined, req[p].user, 404,
                    [error |-> "User not found"])
       ELSE Respond(M, P, "getProfile", req[p].hdr, Undefined, req[p].user, 200,
                    [uid |-> req[p].user.uid, email |-> req[p].user.email,
                     displayName |-> userData.displayName, photoURL |-> userData.photoURL,
                     plan |-> userData.plan, createdAt |-> userData.createdAt,
                     lastLogin |-> userData.lastLogin])
    /\ req' = [req EXCEPT ![p] = Idle]
    /\ UNCHANGED <<clock, ticks, store, tz>>

----------------------------------------------------------------------------
(* GET /api/user/stats *)

Num(n) == [kind |-> "number", num |-> n]
NaN == [kind |-> "number", nan |-> TRUE]

\* a time value, written as whole days from the reference midnight and the
\* milliseconds of the day (time values of far dates do not fit the integers
\* of the checker; a JavaScript number holds them exactly)
Instant(day, ms) == [kind |-> "number", day |-> day, ms |-> ms]

\* texts other than toISOString's that new Date(text) reads as an instant:
\* "YYYY-MM-DD" is midnight UTC of that day,
DateOnly(day) == [kind |-> "string", date |-> [day |-> day]]

\* "YYYY-MM-DDTHH:mm:ssZ" is the instant without milliseconds,
IsoSeconds(t) ==
    [kind |-> "string",
     date |-> [day  |-> t \div DayMs,
               hour |-> (t % DayMs) \div 3600000,
               min  |-> (t % 3600000) \div 60000,
               sec  |-> (t % 60000) \div 1000]]

\* and a text of the legacy forms ("Jan 2, 2024", "1") is midnight of a day
\* in the time zone of the process
LegacyDate(day) == [kind |-> "string", local |-> [day |-> day]]

\* the time value that is ms milliseconds after (before, when negative) the
\* midnight UTC of day
InstantAt(day, ms) == Instant(day + ms \div DayMs, ms % DayMs)

\* a calendar field of a date text, 0 when the text does not have it
DateField(d, f) == IF f \in DOMAIN d THEN d[f] ELSE 0

\* new Date(v).getTime() for a string v in a process whose local time is
\* zone milliseconds ahead of UTC: the instant a date text names (a text
\* without a zone of its own names local time), NaN for any other string
getTime(v, zone) ==
    IF "date" \in DOMAIN v
    THEN Instant(v.date.day,
                 DateField(v.date, "hour") * 3600000 + DateField(v.date, "min") * 60000
                     + DateField(v.date, "sec") * 1000 + DateField(v.date, "ms"))
    ELSE IF "local" \in DOMAIN v
    THEN InstantAt(v.local.day, -zone)
    ELSE NaN

\* the days rounded down instead of up
floorDays(ms) == ms \div DayMs

\* Math.ceil(ms / (1000 * 60 * 60 * 24))
ceilDays(ms) == -((-ms) \div DayMs)

\* daysRemaining as it is serialised (JSON writes NaN as null), computed with
\* Date.now() = now.  msRemaining is end.day whole days plus end.ms - now, so
\* Math.ceil(msRemaining / day) is end.day + Math.ceil((end.ms - now) / day)
daysRemaining(plan, now, zone) ==
    IF ~Truthy(plan.subscriptionEnd) THEN Null
    ELSE IF getTime(plan.subscriptionEnd, zone) = NaN THEN Null
    ELSE LET end == getTime(plan.subscriptionEnd, zone)
             days == end.day + ceilDays(end.ms - now)
         IN  Num(IF days > 0 THEN days ELSE 0)

\* isExpired with the end itself counted as expired
isExpiredAtEnd(plan, now, zone) ==
    IF ~Truthy(plan.subscriptionEnd) THEN FALSE
    ELSE /\ getTime(plan.subscriptionEnd, zone) # NaN
         /\ LET end == getTime(plan.subscriptionEnd, zone) IN
            \/ now \div DayMs > end.day
            \/ now \div DayMs = end.day /\ now % DayMs >= end.ms

\* isExpired, computed with new Date() = now: now > end, compared day by day
\* and then by the milliseconds of the day (a comparison with NaN is false)
isExpired(plan, now, zone) ==
    IF ~Truthy(plan.subscriptionEnd) THEN FALSE
    ELSE /\ getTime(plan.subscriptionEnd, zone) # NaN
         /\ LET end == getTime(plan.subscriptionEnd, zone) IN
            \/ now \div DayMs > end.day
            \/ now \div DayMs = end.day /\ now % DayMs > end.ms

\* the request arrives: the gate, and the handler up to its await
GetStats(p, method, path, hdr) ==
    LET gate == authenticateToken(hdr, clock)
        M == method
        P == path
    IN
    /\ Quiet
    /\ Free(p)
    /\ Dispatch(M, P) = "getStats"
    /\ IF ~gate.next
       THEN Rejected(M, P, "getStats", hdr, Undefined, gate) /\ UNCHANGED req
       ELSE /\ req' = [req EXCEPT ![p] = Awaiting(M, P, hdr, Undefined, gate.user, "getStats")]
            /\ UNCHANGED res
    /\ UNCHANGED <<clock, ticks, store, tz>>

\* the read takes effect
GetStatsGet(p, up) == AwaitGet(p, "getStats", up)

\* the continuation answers from the snapshot; it reads the clock twice:
\* Date.now() for daysRemaining, then new Date() for isExpired, drift
\* milliseconds later
GetStatsAnswer(p, drift) ==
    LET M == req[p].method
        P == req[p].path
        userData == req[p].snap
    IN
    /\ Quiet
    /\ req[p].pc = "got"
    /\ req[p].handler = "getStats"
    /\ IF userData = GetFailed
       THEN /\ Respond(M, P, "getStats", req[p].hdr, Undefined, req[p].user, 500,
                       [error |-> "Failed to get user stats"])
            /\ UNCHANGED <<clock, ticks>>
       ELSE IF userData = NoDoc
       THEN /\ Respond(M, P, "getStats", req[p].hdr, Undefined, req[p].user, 404,
                       [error |-> "User not found"])
            /\ UNCHANGED <<clock, ticks>>
       ELSE /\ drift > 0 => ticks < MaxTicks
            /\ clock' = clock + drift
            /\ ticks' = IF drift > 0 THEN ticks + 1 ELSE ticks
            /\ Respond(M, P, "getStats", req[p].hdr, Undefined, req[p].user, 200,
                       [planType |-> userData.plan.type,
                        planStatus |-> userData.plan.status,
                        daysRemaining |-> daysRemaining(userData.plan, clock, tz),
                        isExpired |-> isExpired(userData.plan, clock + drift, tz),
                        memberSince |-> userData.createdAt])
    /\ req' = [req EXCEPT ![p] = Idle]
    /\ UNCHANGED <<store, tz>>

----------------------------------------------------------------------------
(* The requests the model sends *)

UidVals == {Str("u1"), Str("u2")}

EmailOf(uid) == IF uid = Str("u1") THEN Str("a@x.com") ELSE Str("b@x.com")

Bearer(token) == Header(<<Str("Bearer"), token>>)

\* a token the holder of the secret signed for uid at time t
Issued(uid, t) == jwtSign(uid, EmailOf(uid), JWT_SECRET, t)

\* the same token with the subject id rewritten and the signature kept
Tampered(uid, t) ==
    LET tok == Issued(uid, t)
        other == CHOOSE u \in UidVals : u # uid
    IN  Jwt([tok.jwt.payload EXCEPT !.uid = other], tok.jwt.sig)

\* a token for uid signed with another key
Forged(uid, t) == jwtSign(uid, EmailOf(uid), OtherKey, t)

\* milliseconds that pass between two readings of the clock in one handler
Drifts == {0, 1}

\* whether the store answers a call: it always does, or it may fail
StoreUp == {TRUE}
StoreUpOrDown == {TRUE, FALSE}

\* Authorization headers of the requests to the store routes
Headers == {NoHeader, Bearer(Issued(Str("u1"), 0))}

CreateBodies ==
    {[planType |-> t] : t \in {Undefined, Str("trial"), Str("pro"), Str("enterprise")}}
    \cup {Unparsed}

\* a create that leaves the plan to the default
DefaultBodies == {[planType |-> Undefined]}

PlanBody(t, e, c) == [planType |-> t, subscriptionEnd |-> e, stripeCustomerId |-> c]

PlanBodies ==
    {PlanBody(Str("pro"), Undefined, Str("cus_123")),
     PlanBody(Str("trial"), Undefined, Undefined),
     PlanBody(Str("free"), Null, Str("")),
     PlanBody(Str("plus"), toISOString(DayMs \div 48), Undefined),
     PlanBody(Str("enterprise"), toISOString(DayMs \div 48), Str("cus_123")),
     PlanBody(Undefined, Undefined, Undefined),
     Unparsed}

ProfileBody(d, u) == [displayName |-> d, photoURL |-> u]

ProfileBodies ==
    {ProfileBody(Str("Ann"), Undefined),
     ProfileBody(Null, Str("http://p"))}

TokenBodies ==
    {[uid |-> u, email |-> e] : u \in {Undefined, Str("u1")}, e \in {Undefined, Str("a@x.com")}}
    \cup {Unparsed}

\* the requests whose body may fail to parse: one to each route, one to none
Routes ==
    {<<Layers[i].method, Exact(Layers[i].path)>> :
        i \in {j \in 1..Len(Layers) : Layers[j].path # "*"}}
    \cup {<<"POST", Exact("/api/nothing")>>}

\* three ways to write the path of a route: as registered, with its second
\* segment in capitals, and with one more "/" at its end
Spellings(text) == {Exact(text), Path(text, {2, 3, 4}, FALSE), Path(text, {}, TRUE)}

\* the methods a GET route takes
GetOrHead == {"GET", "HEAD"}

\* requests that no route takes: an unknown path, a method no route of the
\* path is registered for, and a path with two more "/" than registered
Strays ==
    {<<"GET", Exact("/api/nothing")>>,
     <<"HEAD", Exact("/api/nothing")>>,
     <<"POST", Exact("/api/health")>>,
     <<"GET", Path("/api/health/", {}, TRUE)>>}

\* the paths of the preflight requests
PreflightPaths == Spellings("/api/health") \cup {Exact("/api/nothing")}

Steps == {DayMs}

\* a millisecond passes while a create waits for the store
CreateSteps == {1}

\* the instants at which the tokens presented to the gate were signed
IssueTimes == {0, 999}

\* Authorization headers of the requests to the routes that touch no store
GateHeaders(now) ==
    {NoHeader, Header(<<Str("Bearer")>>), Bearer(Str("")), Bearer(Str("x")),
     Header(<<Str("Basic"), Str("x")>>)}
    \cup UNION {{Bearer(Issued(u, t)),
                 Header(<<Str("Token"), Issued(u, t)>>),
                 Header(<<Issued(u, t)>>),
                 Bearer(Tampered(u, t)),
                 Bearer(Forged(u, t))} : u \in UidVals, t \in {i \in IssueTimes : i <= now}}

\* a token lives TokenTtlSec seconds: the steps reach the last millisecond
\* before an expiry and the expiry itself
GateSteps == {1, 999, TokenTtlSec * 1000 - 1000}

----------------------------------------------------------------------------
(* The server *)

\* the zone plays no part where every stored date is a toISOString text,
\* which names its instant in UTC: the process runs in UTC here, and in
\* every zone of TimeZones in InitStats, where legacy texts are stored
Init ==
    /\ clock = 0
    /\ ticks = 0
    /\ store = [id \in UidVals |-> NoDoc]
    /\ req = [p \in Procs |-> Idle]
    /\ res = NoResponse
    /\ tz = 0

\* the update routes over the document of a user created with the default
\* plan, two requests in flight
Next ==
    \/ \E d \in Steps : Tick(d, MaxTicks)
    \/ \E p \in Procs, h \in Headers, b \in DefaultBodies : CreateUser(p, "POST", Exact("/api/user/create"), h, b)
    \/ \E p \in Procs, up \in StoreUp : CreateUserGet(p, up)
    \/ \E p \in Procs : CreateUserBuild(p, 0)
    \/ \E p \in Procs, up \in StoreUp : CreateUserSet(p, up)
    \/ \E p \in Procs, ack \in StoreUp : CreateUserAnswer(p, ack)
    \/ \E p \in Procs, h \in Headers, b \in PlanBodies : UpdatePlan(p, "PUT", Exact("/api/user/plan"), h, b)
    \/ \E p \in Procs, up \in StoreUp : UpdatePlanWrite(p, up)
    \/ \E p \in Procs, ack \in StoreUp : UpdatePlanAnswer(p, ack)
    \/ \E p \in Procs, h \in Headers, b \in ProfileBodies : UpdateProfile(p, "PUT", Exact("/api/user/profile"), h, b)
    \/ \E p \in Procs, up \in StoreUp : UpdateProfileWrite(p, up)
    \/ \E p \in Procs, ack \in StoreUp : UpdateProfileAnswer(p, ack)
    \/ Sent

Spec == Init /\ [][Next]_vars

\* the create route with every body, two requests in flight
NextCreate ==
    \/ \E d \in Steps \cup CreateSteps : Tick(d, MaxTicks)
    \/ \E p \in Procs, h \in Headers, b \in CreateBodies : CreateUser(p, "POST", Exact("/api/user/create"), h, b)
    \/ \E p \in Procs, up \in StoreUp : CreateUserGet(p, up)
    \/ \E p \in Procs, d \in Drifts : CreateUserBuild(p, d)
    \/ \E p \in Procs, up \in StoreUp : CreateUserSet(p, up)
    \/ \E p \in Procs, ack \in StoreUp : CreateUserAnswer(p, ack)
    \/ Sent

SpecCreate == Init /\ [][NextCreate]_vars

\* the profile routes, two requests in flight
\* two ways to ask for the profile: as the route is registered, and by HEAD
\* with capitals and one more "/"
ProfileReads ==
    {<<"GET", Exact("/api/user/profile")>>,
     <<"HEAD", Path("/api/user/profile", {2, 3, 4}, TRUE)>>}

NextProfile ==
    \/ \E d \in Steps : Tick(d, MaxTicks)
    \/ \E p \in Procs, h \in Headers, b \in DefaultBodies : CreateUser(p, "POST", Exact("/api/user/create"), h, b)
    \/ \E p \in Procs, up \in StoreUp : CreateUserGet(p, up)
    \/ \E p \in Procs : CreateUserBuild(p, 0)
    \/ \E p \in Procs, up \in StoreUp : CreateUserSet(p, up)
    \/ \E p \in Procs, ack \in StoreUp : CreateUserAnswer(p, ack)
    \/ \E p \in Procs, h \in Headers, b \in ProfileBodies : UpdateProfile(p, "PUT", Exact("/api/user/profile"), h, b)
    \/ \E p \in Procs, up \in StoreUp : UpdateProfileWrite(p, up)
    \/ \E p \in Procs, ack \in StoreUp : UpdateProfileAnswer(p, ack)
    \/ \E p \in Procs, r \in ProfileReads, h \in Headers : GetProfile(p, r[1], r[2], h)
    \/ \E p \in Procs, up \in StoreUp : GetProfileGet(p, up)
    \/ \E p \in Procs : GetProfileAnswer(p)
    \/ Sent

SpecProfile == Init /\ [][NextProfile]_vars

\* the gate under every kind of header, in front of the routes that answer
\* in the callback of the gate (the store routes pass the same gate, in Next)
NextGate ==
    \/ \E d \in GateSteps : Tick(d, MaxGateTicks)
    \/ \E m \in GetOrHead, q \in Spellings("/api/health"), h \in GateHeaders(clock) :
          Health(m, q, h)
    \/ \E m \in GetOrHead, q \in Spellings("/api/auth/verify"), h \in GateHeaders(clock) :
          AuthVerify(m, q, h)
    \/ \E q \in Spellings("/api/auth/logout"), h \in GateHeaders(clock) :
          Logout("POST", q, h)
    \/ \E q \in Spellings("/api/auth/generate-token"),
          h \in {NoHeader, Bearer(Issued(Str("u1"), 0))}, b \in TokenBodies :
          GenerateToken("POST", q, h, b)
    \/ \E q \in PreflightPaths, h \in GateHeaders(clock) : Preflight("OPTIONS", q, h)
    \/ \E r \in Strays, h \in GateHeaders(clock) : NoRoute(r[1], r[2], h)
    \/ \E r \in Routes, h \in GateHeaders(clock) : BodyParseError(r[1], r[2], h)
    \/ Sent

SpecGate == Init /\ [][NextGate]_vars

----------------------------------------------------------------------------
(* The usage statistics around the end of a subscription *)

\* the ends of the stored subscriptions: 30 minutes, one day and seven days
\* after the reference midnight
StatEnds == {DayMs \div 48, DayMs, TrialMs}

\* ends a client wrote in another form: "YYYY-MM-DD" and a legacy text for the
\* midnight after one day, "YYYY-MM-DDTHH:mm:ssZ" for 00:30:00
StatEndTexts == {DateOnly(1), LegacyDate(1), IsoSeconds(DayMs \div 48)}

\* the plans PUT /api/user/plan stored at the reference midnight, one without
\* an end and one for each end
StatPlanBodies ==
    {PlanBody(Str("pro"), e, Undefined) :
        e \in {Null} \cup {toISOString(t) : t \in StatEnds} \cup StatEndTexts}

\* the document of u1: created as a trial at the reference midnight, and then
\* either left as it is or given one of the plans
StatDocs ==
    LET user == [uid |-> Str("u1"), email |-> EmailOf(Str("u1"))]
        created == newUserData(user, Str("trial"), 0, 0)
    IN  {created} \cup {[created EXCEPT !.plan = updatedPlan(b, 0)] : b \in StatPlanBodies}

\* the zones the process may run in: UTC, nine hours ahead of it (Tokyo) and
\* five hours behind it (New York in winter)
TimeZones == {0, 9 * 3600000, -5 * 3600000}

\* the instants of the stats requests: a day and more before an end, 30
\* minutes and one millisecond before it, the end itself, one second after;
\* the midnight after one day in each zone, and an hour after Tokyo's
StatNows ==
    {0, DayMs \div 48 - 1, DayMs \div 48, DayMs - DayMs \div 48, DayMs - 1, DayMs,
     DayMs + 1000, TrialMs - DayMs - 1, TrialMs - DayMs, TrialMs - 1, TrialMs,
     TrialMs + 1000}
    \cup {DayMs - z : z \in TimeZones} \cup {DayMs - 8 * 3600000}

StatSteps == {1, 1000}

\* milliseconds between Date.now() and new Date() in the stats handler
StatDrifts == {0, 1, 2}

\* the tokens of u1, signed at the reference midnight and one day later
StatIssueTimes == {0, DayMs}

StatHeaders(now) == {Bearer(Issued(Str("u1"), t)) : t \in {i \in StatIssueTimes : i <= now}}

InitStats ==
    /\ clock \in StatNows
    /\ ticks = 0
    /\ store \in {[id \in UidVals |-> IF id = Str("u1") THEN doc ELSE NoDoc] : doc \in StatDocs}
    /\ req = [p \in Procs |-> Idle]
    /\ res = NoResponse
    /\ tz \in TimeZones

NextStats ==
    \/ \E d \in StatSteps : Tick(d, MaxTicks)
    \/ \E p \in Procs, h \in StatHeaders(clock) : GetStats(p, "GET", Exact("/api/user/stats"), h)
    \/ \E p \in Procs, up \in StoreUp : GetStatsGet(p, up)
    \/ \E p \in Procs, d \in StatDrifts : GetStatsAnswer(p, d)
    \/ Sent

SpecStats == InitStats /\ [][NextStats]_vars

----------------------------------------------------------------------------
(* A plan update and a profile update of one user in flight together *)

RaceUser == [uid |-> Str("u1"), email |-> EmailOf(Str("u1"))]

\* the plan handler suspended at its update(), having handled body at time now
PlanRequest(body, now) ==
    [pc |-> "update", handler |-> "updatePlan", method |-> "PUT",
     path |-> Exact("/api/user/plan"), hdr |-> Bearer(Issued(Str("u1"), 0)),
     body |-> body, user |-> RaceUser,
     data |-> [plan |-> updatedPlan(body, now), lastLogin |-> toISOString(now)]]

\* the profile handler suspended at its update(), having handled body at time now
ProfileRequest(body, now) ==
    [pc |-> "update", handler |-> "updateProfile", method |-> "PUT",
     path |-> Exact("/api/user/profile"), hdr |-> Bearer(Issued(Str("u1"), 0)),
     body |-> body, user |-> RaceUser, data |-> updates(body, now)]

\* the plan bodies that pass the validation of the type
RacePlanBodies == {b \in PlanBodies \ {Unparsed} : b.planType \in validPlans}

\* the document before the two updates: as created, or with a name and a
\* picture from an earlier profile update
RaceDocs ==
    LET created == newUserData(RaceUser, Str("trial"), 0, 0)
    IN  {created, [created EXCEPT !.displayName = Str("Old"), !.photoURL = Str("http://old")]}

\* the instants at which the two handlers took the clock
RaceTimes == {1000, 2000}

InitRace ==
    /\ clock = 2000
    /\ ticks = 0
    /\ store \in {[id \in UidVals |-> IF id = Str("u1") THEN doc ELSE NoDoc] : doc \in RaceDocs}
    /\ req \in {[p \in Procs |-> IF p = "r1" THEN PlanRequest(bp, tp) ELSE ProfileRequest(bf, tf)] :
                    bp \in RacePlanBodies, bf \in ProfileBodies, tp \in RaceTimes, tf \in RaceTimes}
    /\ res = NoResponse
    /\ tz = 0

NextRace ==
    \/ \E d \in Steps : Tick(d, MaxTicks)
    \/ \E p \in Procs, up \in StoreUp : UpdatePlanWrite(p, up)
    \/ \E p \in Procs, ack \in StoreUp : UpdatePlanAnswer(p, ack)
    \/ \E p \in Procs, up \in StoreUp : UpdateProfileWrite(p, up)
    \/ \E p \in Procs, ack \in StoreUp : UpdateProfileAnswer(p, ack)
    \/ Sent

SpecRace == InitRace /\ [][NextRace]_vars

----------------------------------------------------------------------------
(* Two users, and request bodies that name a uid *)

\* each user presents the token signed for it
TwoHeaders == {Bearer(Issued(u, 0)) : u \in UidVals}

\* bodies that carry, besides the fields the handlers read, the uid of a user
TwoCreateBodies == {[planType |-> Str("pro"), uid |-> u] : u \in UidVals}

TwoPlanBodies ==
    {[planType |-> Str("plus"), subscriptionEnd |-> Undefined,
      stripeCustomerId |-> Undefined, uid |-> u] : u \in UidVals}

TwoProfileBodies ==
    {[displayName |-> Str("Ann"), photoURL |-> Undefined, uid |-> u] : u \in UidVals}
    \cup {Unparsed}

NextTwo ==
    \/ \E p \in Procs, h \in TwoHeaders : GetProfile(p, "GET", Exact("/api/user/profile"), h)
    \/ \E p \in Procs, up \in StoreUpOrDown : GetProfileGet(p, up)
    \/ \E p \in Procs : GetProfileAnswer(p)
    \/ \E p \in Procs, h \in TwoHeaders, b \in TwoCreateBodies : CreateUser(p, "POST", Exact("/api/user/create"), h, b)
    \/ \E p \in Procs, up \in StoreUpOrDown : CreateUserGet(p, up)
    \/ \E p \in Procs : CreateUserBuild(p, 0)
    \/ \E p \in Procs, up \in StoreUpOrDown : CreateUserSet(p, up)
    \/ \E p \in Procs, ack \in StoreUpOrDown : CreateUserAnswer(p, ack)
    \/ \E p \in Procs, h \in TwoHeaders, b \in TwoPlanBodies : UpdatePlan(p, "PUT", Exact("/api/user/plan"), h, b)
    \/ \E p \in Procs, up \in StoreUpOrDown : UpdatePlanWrite(p, up)
    \/ \E p \in Procs, ack \in StoreUpOrDown : UpdatePlanAnswer(p, ack)
    \/ \E p \in Procs, h \in TwoHeaders, b \in TwoProfileBodies : UpdateProfile(p, "PUT", Exact("/api/user/profile"), h, b)
    \/ \E p \in Procs, up \in StoreUpOrDown : UpdateProfileWrite(p, up)
    \/ \E p \in Procs, ack \in StoreUpOrDown : UpdateProfileAnswer(p, ack)
    \/ \E p \in Procs, h \in TwoHeaders : GetStats(p, "GET", Exact("/api/user/stats"), h)
    \/ \E p \in Procs, up \in StoreUpOrDown : GetStatsGet(p, up)
    \/ \E p \in Procs : GetStatsAnswer(p, 0)
    \/ Sent

SpecTwo == Init /\ [][NextTwo]_vars

----------------------------------------------------------------------------
(* Vocabulary of the properties *)

Protected ==
    {"health", "authVerify", "logout", "getProfile", "createUser", "updatePlan",
     "updateProfile", "getStats"}

FourTypes == {Str("free"), Str("trial"), Str("pro"), Str("plus")}

\* a response of a protected route is being written
Answered == res # NoResponse /\ res.handler \in Protected

\* the header reads "Bearer <token>" with a token that is not empty
BearerForm(hdr) ==
    /\ hdr # NoHeader
    /\ Len(hdr.parts) = 2
    /\ hdr.parts[1] = Str("Bearer")
    /\ hdr.parts[2] # Str("")

\* the token a request presents: what follows the first space of the header
Presented(hdr) ==
    IF hdr # NoHeader /\ Len(hdr.parts) >= 2 THEN hdr.parts[2] ELSE Str("")

\* TokenCodec.verify succeeds on a token at time now
Verifies(token, now) == jwtVerifyErr(token, JWT_SECRET, now) = "none"

\* the expiry a token embeds, in milliseconds
ExpiresAt(token) == token.jwt.payload.exp * 1000

\* the tokens the holder of the secret has signed by now
SignedBy(now) == {Issued(u, t) : u \in UidVals, t \in {i \in IssueTimes : i <= now}}

----------------------------------------------------------------------------
(* C2: a request to a protected route whose Authorization header is absent
   or is not of the form "Bearer <token>" is answered 401 and its handler
   does not run. *)
C2_NoBearerNoEntry ==
    (Answered /\ ~BearerForm(res.hdr)) => (res.status = 401 /\ ~res.ran)

\* a request to a protected route is being answered, by the route, by its
\* gate, or by the error handler before the gate
ToProtected == res # NoResponse /\ Dispatch(res.method, res.path) \in Protected

(* C3: a protected handler runs only when verify succeeded on the token of
   the same request, and req.user is then the uid and email of that token;
   when a token is presented on which verify fails, no identity is attached
   and the handler does not run, and the gate, whenever the request reaches
   it, answers 403. *)
C3_HandlerOnlyAfterVerify ==
    ToProtected =>
        LET token == Presented(res.hdr) IN
        /\ res.ran =>
              /\ Verifies(token, clock)
              /\ res.user = [uid |-> token.jwt.payload.uid,
                             email |-> token.jwt.payload.email]
        /\ (token # Str("") /\ ~Verifies(token, clock)) =>
              /\ Answered => res.status = 403
              /\ res.user = NoUser
              /\ ~res.ran

\* the verify route ran behind a token signed for u2 and echoes that identity
C3_Witness ==
    /\ Answered
    /\ res.ran
    /\ res.handler = "authVerify"
    /\ res.hdr = Bearer(Issued(Str("u2"), 0))
    /\ res.out.user = [uid |-> Str("u2"), email |-> Str("b@x.com")]

(* C4: a token signed for (uid, email) and presented before its expiresAt
   is verified and yields exactly that uid and email. *)
C4_RoundTrip ==
    \A u \in UidVals, t \in IssueTimes :
        LET token == jwtSign(u, EmailOf(u), JWT_SECRET, t) IN
        (Answered /\ res.hdr = Bearer(token) /\ clock < ExpiresAt(token)) =>
            /\ res.ran
            /\ res.user = [uid |-> u, email |-> EmailOf(u)]

\* a token signed at 999 ms is presented in the last millisecond of its life
C4_Witness ==
    /\ Answered
    /\ res.hdr = Bearer(jwtSign(Str("u1"), Str("a@x.com"), JWT_SECRET, 999))
    /\ clock = ExpiresAt(Presented(res.hdr)) - 1
    /\ res.ran
    /\ res.user = [uid |-> Str("u1"), email |-> Str("a@x.com")]

\* a protected route answers a request that presents token as a Bearer token
Shown(token) == Answered /\ res.hdr = Bearer(token)

(* C5: a token with a valid signature is accepted at every time before its
   expiresAt and refused with 403 at every time from expiresAt on; once the
   clock has reached expiresAt the token is never accepted again. *)
C5_ExpiryIsSharp ==
    /\ [](\A token \in SignedBy(clock) :
            Shown(token) =>
                IF clock < ExpiresAt(token)
                THEN res.ran /\ res.status # 403
                ELSE res.status = 403 /\ ~res.ran)
    /\ \A u \in UidVals, t \in IssueTimes :
          [](clock >= ExpiresAt(Issued(u, t)) => [](~(Shown(Issued(u, t)) /\ res.ran)))

\* a validly signed token is refused at the very instant of its expiresAt
C5_Witness ==
    /\ Shown(Issued(Str("u1"), 0))
    /\ clock = ExpiresAt(Issued(Str("u1"), 0))
    /\ res.status = 403

(* C6: POST /api/auth/generate-token without an Authorization header is
   answered by the token-issuing handler: 200 with a token when uid and
   email are both present, 400 when one is missing; no other handler
   answers it. *)
C6_GenerateTokenReachable ==
    (res # NoResponse /\ res.method = "POST"
       /\ PathMatches("/api/auth/generate-token", res.path) /\ res.hdr = NoHeader) =>
        /\ res.handler = "generateToken"
        /\ IF res.body.uid # Undefined /\ res.body.email # Undefined
           THEN res.status = 200 /\ "token" \in DOMAIN res.out
           ELSE res.status = 400

----------------------------------------------------------------------------
(* Steps of the writing handlers, as the properties see them *)

\* slot p starts a request handled by h and suspends at its first await
Suspends(p, h) == req[p] = Idle /\ req'[p] # Idle /\ req'[p].handler = h

\* the continuation of the existence check in slot p builds newUserData and
\* suspends at set()
Builds(p) ==
    /\ req[p] # Idle /\ req[p].pc = "got" /\ req[p].handler = "createUser"
    /\ req'[p] # Idle /\ req'[p].pc = "set"

\* the write of the request handled by h in slot p reaches the store
Lands(p, h) ==
    /\ req[p] # Idle /\ req[p].handler = h /\ req[p].pc \in {"set", "update"}
    /\ req'[p] # Idle /\ req'[p].pc = "written"

\* the continuation of the write of the request handled by h in slot p answers
Replies(p, h) ==
    /\ req[p] # Idle /\ req[p].handler = h /\ req[p].pc = "written"
    /\ req'[p] = Idle

\* the continuation of the read of the request handled by h in slot p answers
Answers(p, h) ==
    /\ req[p] # Idle /\ req[p].handler = h /\ req[p].pc = "got"
    /\ req'[p] = Idle

\* no end was supplied, no billing id was supplied
NoneSupplied(v) == v \in {Undefined, Null, Str("")}

(* C1: of the create requests for one subject id, whatever the interleaving
   of their reads and writes, one is answered 201 and every other one 409,
   and no later request overwrites the document of the one that succeeded:
   a create whose write reaches a stored document leaves the document as
   it is and is answered 409. *)
C1_CreateAtMostOnce ==
    [][\A p \in Procs :
          /\ Answers(p, "createUser") => (res'.status = 409 /\ store' = store)
          /\ Lands(p, "createUser") =>
                IF store[req[p].user.uid] = NoDoc
                THEN req'[p].applied /\ store'[req[p].user.uid] = req[p].data
                ELSE ~req'[p].applied /\ store' = store
          /\ Replies(p, "createUser") =>
                res'.status = IF req[p].applied THEN 201 ELSE 409]_vars

(* C7: an authenticated plan update whose type is none of free, trial, pro,
   plus (an absent type included) is answered 400, never reaches the write,
   and leaves the store as it was. *)
C7_InvalidTypeRejected ==
    [][/\ \A p \in Procs :
             (req'[p] # Idle /\ req'[p].handler = "updatePlan")
                 => req'[p].body.planType \in FourTypes
       /\ (res' # NoResponse /\ res'.handler = "updatePlan" /\ res'.ran
             /\ res'.body.planType \notin FourTypes)
             => (res'.status = 400 /\ store' = store)]_vars

\* a request without a type is answered 400 while a document is stored
C7_Witness ==
    /\ res # NoResponse
    /\ res.handler = "updatePlan"
    /\ res.body.planType = Undefined
    /\ res.status = 400
    /\ store[Str("u1")] # NoDoc

\* the plan the claim describes for a request body handled at time now
ClaimedPlan(body, now) ==
    [type |-> body.planType,
     status |-> Str("active"),
     subscriptionStart |-> toISOString(now),
     subscriptionEnd |-> IF NoneSupplied(body.subscriptionEnd) THEN Null
                         ELSE body.subscriptionEnd,
     stripeCustomerId |-> IF NoneSupplied(body.stripeCustomerId) THEN Null
                          ELSE body.stripeCustomerId,
     lastUpdated |-> toISOString(now)]

(* C8: a successful plan update of an existing user stores exactly the plan
   {type: requested, status: active, subscriptionStart = lastUpdated = now,
   subscriptionEnd: the supplied end or null, billing id: the supplied id or
   null}, whatever the plan was before; no expiry is set for any type. *)
C8_PlanReplacedWholesale ==
    [][\A p \in Procs :
          /\ Suspends(p, "updatePlan") =>
                req'[p].data.plan = ClaimedPlan(req'[p].body, clock)
          /\ (Lands(p, "updatePlan") /\ store[req[p].user.uid] # NoDoc) =>
                /\ req'[p].applied
                /\ store'[req[p].user.uid].plan = req[p].data.plan
          /\ (Replies(p, "updatePlan") /\ req[p].applied) =>
                /\ res'.status = 200
                /\ res'.out.plan = req[p].data.plan]_vars

\* a trial requested without end or billing id replaced a plan: no expiry
C8_Witness ==
    /\ res # NoResponse
    /\ res.handler = "updatePlan"
    /\ res.status = 200
    /\ res.body.planType = Str("trial")
    /\ store[Str("u1")].plan.type = Str("trial")
    /\ store[Str("u1")].plan.subscriptionEnd = Null
    /\ store[Str("u1")].plan.stripeCustomerId = Null
    /\ store[Str("u1")].plan.subscriptionStart # store[Str("u1")].createdAt

\* the plan the claim describes for a create with planType handled at time T
ClaimedNewPlan(planType, T) ==
    [type |-> planType,
     status |-> Str("active"),
     subscriptionStart |-> toISOString(T),
     subscriptionEnd |-> IF planType = Str("trial") THEN toISOString(T + TrialMs) ELSE Null,
     lastUpdated |-> toISOString(T)]

(* C9: a create with planType trial, or without planType, handled at time T
   stores the plan {trial, active, subscriptionStart = lastUpdated = T,
   subscriptionEnd = T + 7 days}, for which the stats at T give
   daysRemaining = 7 and isExpired = false; a create with another planType
   stores subscriptionEnd = null. *)
C9_TrialEndsAfterSevenDays ==
    [][\A p \in Procs :
          /\ Builds(p) =>
                LET given == req'[p].body.planType
                    type == IF given = Undefined THEN Str("trial") ELSE given
                    plan == req'[p].data.plan
                IN  /\ plan = ClaimedNewPlan(type, clock)
                    /\ type = Str("trial") =>
                          /\ daysRemaining(plan, clock, tz) = Num(7)
                          /\ ~isExpired(plan, clock, tz)
          /\ Lands(p, "createUser") =>
                store'[req[p].user.uid].plan = req[p].data.plan]_vars

(* C10: every stored user document has plan.type in {free, trial, pro,
   plus}. *)
C10_PlanTypeIsOneOfFour ==
    \A id \in UidVals : store[id] # NoDoc => store[id].plan.type \in FourTypes

----------------------------------------------------------------------------
(* The stats responses, as the properties see them *)

\* the stats handler of slot p answers 200 in this step
StatsAnswer(p) == Answers(p, "getStats") /\ res'.status = 200

\* the end of the plan the stats handler read, in milliseconds
EndMs(plan) ==
    getTime(plan.subscriptionEnd, tz).day * DayMs + getTime(plan.subscriptionEnd, tz).ms

(* C11: for the plan the stats handler was given and the instant now it
   reads first,
   daysRemaining is null when subscriptionEnd is null and is otherwise
   max(0, ceil((subscriptionEnd - now) / one day)): the least n >= 0 with
   subscriptionEnd - now <= n days; so it is at least 1 whenever
   now < subscriptionEnd and 0 whenever now >= subscriptionEnd. *)
C11_DaysRemainingIsCeiling ==
    [][\A p \in Procs : StatsAnswer(p) =>
          LET plan == req[p].snap.plan
              now == clock
              days == res'.out.daysRemaining
          IN  IF plan.subscriptionEnd = Null THEN days = Null
              ELSE /\ days # Null
                   /\ days.num >= 0
                   /\ EndMs(plan) - now <= days.num * DayMs
                   /\ days.num > 0 => EndMs(plan) - now > (days.num - 1) * DayMs
                   /\ now < EndMs(plan) => days.num >= 1
                   /\ now >= EndMs(plan) => days.num = 0]_vars

\* thirty minutes before the end of the subscription one day remains
C11_Witness ==
    /\ res # NoResponse
    /\ res.handler = "getStats"
    /\ res.status = 200
    /\ store[Str("u1")].plan.subscriptionEnd = toISOString(DayMs)
    /\ clock = DayMs - 30 * 60 * 1000
    /\ res.out.daysRemaining = Num(1)

(* C12: isExpired is false when subscriptionEnd is null and is otherwise
   true exactly when now > subscriptionEnd, now being the instant the
   handler reads for it: false at now = subscriptionEnd, true one second
   later. *)
C12_ExpiredStrictlyAfterEnd ==
    [][\A p \in Procs : StatsAnswer(p) =>
          LET plan == req[p].snap.plan
              now == clock'
          IN  res'.out.isExpired =
                  IF plan.subscriptionEnd = Null THEN FALSE ELSE now > EndMs(plan)]_vars

\* at the very instant of its end the subscription is not expired
C12_Witness ==
    /\ res # NoResponse
    /\ res.handler = "getStats"
    /\ res.status = 200
    /\ store[Str("u1")].plan.subscriptionEnd = toISOString(DayMs)
    /\ clock = DayMs
    /\ res.out.isExpired = FALSE

(* C18: for a stored plan with an end, daysRemaining never increases as the
   clock advances, and no stats response reports isExpired = true together
   with daysRemaining > 0. *)
C18_StatsCoherent ==
    [][/\ \A id \in UidVals :
             (store[id] # NoDoc /\ store'[id] = store[id]
                /\ store[id].plan.subscriptionEnd # Null)
                 => daysRemaining(store[id].plan, clock', tz).num
                       <= daysRemaining(store[id].plan, clock, tz).num
       /\ \A p \in Procs : StatsAnswer(p) =>
             ~(/\ res'.out.isExpired
               /\ res'.out.daysRemaining # Null
               /\ res'.out.daysRemaining.num > 0)]_vars

----------------------------------------------------------------------------
(* The profile and plan routes on stored and missing documents *)

\* GET /api/user/profile of slot p answers 200 in this step
ProfileRead(p) == Answers(p, "getProfile") /\ res'.status = 200

(* C13: every successful profile read and every successful profile write
   leaves the stored lastLogin equal to the time of that request: the read
   leaves it at the instant it is served, the write at the instant its
   handler took when it built the update. *)
C13_LastLoginIsRequestTime ==
    [][/\ \A p \in Procs :
             ProfileRead(p) => store'[req[p].user.uid].lastLogin = toISOString(clock)
       /\ \A p \in Procs :
             /\ Suspends(p, "updateProfile") =>
                   req'[p].data.lastLogin = toISOString(clock)
             /\ (Lands(p, "updateProfile") /\ req'[p].applied) =>
                   store'[req[p].user.uid].lastLogin = req[p].data.lastLogin
             /\ (Replies(p, "updateProfile") /\ res'.status = 200) =>
                   req[p].applied]_vars

(* C14: a plan update or a profile update for a subject id without a stored
   document ends with NotFound (404), does not report success, and leaves
   the store without a document for that id. *)
C14_UpdateOfMissingIsNotFound ==
    [][\A p \in Procs :
          /\ ((Lands(p, "updatePlan") \/ Lands(p, "updateProfile"))
                /\ store[req[p].user.uid] = NoDoc)
                 => /\ ~req'[p].applied
                    /\ store'[req[p].user.uid] = NoDoc
          /\ ((Replies(p, "updatePlan") \/ Replies(p, "updateProfile"))
                /\ ~req[p].applied)
                 => /\ res'.status = 404
                    /\ res'.status # 200]_vars

\* the top-level fields the request in slot p supplies
Supplied(p) ==
    IF req[p].handler = "updatePlan" THEN {"plan"}
    ELSE {f \in {"displayName", "photoURL"} : req[p].body[f] # Undefined}

(* C15: a successful update changes only the top-level fields it supplies
   plus lastLogin: a profile update leaves plan, email, uid and createdAt
   unchanged, and displayName or photoURL unchanged when the request omits
   it; a plan update leaves displayName, photoURL, email, uid and createdAt
   unchanged. *)
C15_UpdateTouchesOnlySupplied ==
    [][\A p \in Procs :
          ((Lands(p, "updatePlan") \/ Lands(p, "updateProfile")) /\ req'[p].applied) =>
              LET id == req[p].user.uid IN
              /\ DOMAIN store'[id] = DOMAIN store[id]
              /\ \A f \in DOMAIN store[id] \ (Supplied(p) \cup {"lastLogin"}) :
                    store'[id][f] = store[id][f]
              /\ {"email", "uid", "createdAt"} \subseteq DOMAIN store[id] \ Supplied(p)
              /\ Lands(p, "updateProfile") => "plan" \notin Supplied(p)
              /\ Lands(p, "updatePlan") =>
                    {"displayName", "photoURL"} \cap Supplied(p) = {}]_vars

\* a profile update that omits photoURL landed on a document with a photoURL
\* and a paid plan, and both are still there
C15_Witness ==
    /\ res # NoResponse
    /\ res.handler = "updateProfile"
    /\ res.status = 200
    /\ res.body.photoURL = Undefined
    /\ store[Str("u1")].photoURL = Str("http://p")
    /\ store[Str("u1")].displayName = Str("Ann")
    /\ store[Str("u1")].plan.type = Str("pro")

(* C16: once a document is stored for a subject id it is stored in every
   later state, and its createdAt, uid and email never change, whatever the
   interleaving of create, plan update, profile update, profile read and
   stats requests. *)
C16_CreatedOnceAndKept ==
    [][\A id \in UidVals :
          store[id] # NoDoc =>
              /\ store'[id] # NoDoc
              /\ store'[id].createdAt = store[id].createdAt
              /\ store'[id].uid = store[id].uid
              /\ store'[id].email = store[id].email]_vars

(* C17: whatever plan an existing user has (any type, any end, expired or
   not), an authenticated plan update with one of the four valid types is
   never answered before its write, and its write is answered 200 and
   leaves the plan with the requested type and status active: no state of
   the plan refuses a transition. *)
C17_NoPlanStateIsTerminal ==
    [][/\ (res' # NoResponse /\ res'.handler = "updatePlan" /\ res'.ran
             /\ res'.body.planType \in FourTypes)
             => \E p \in Procs : Replies(p, "updatePlan")
       /\ \A p \in Procs :
             /\ (Lands(p, "updatePlan") /\ store[req[p].user.uid] # NoDoc) =>
                   /\ req[p].body.planType \in FourTypes
                   /\ req'[p].applied
                   /\ store'[req[p].user.uid].plan.type = req[p].body.planType
                   /\ store'[req[p].user.uid].plan.status = Str("active")
             /\ (Replies(p, "updatePlan") /\ req[p].applied) => res'.status = 200]_vars

\* a change to free was accepted and is about to be written over a plus plan
\* whose end has passed
C17_Witness ==
    \E p \in Procs :
        /\ req[p] # Idle
        /\ req[p].handler = "updatePlan"
        /\ req[p].body.planType = Str("free")
        /\ store[Str("u1")] # NoDoc
        /\ store[Str("u1")].plan.type = Str("plus")
        /\ isExpired(store[Str("u1")].plan, clock, tz)

----------------------------------------------------------------------------
(* Two updates of one document in flight together *)

\* both requests have been answered
RaceDone == \A p \in Procs : req[p] = Idle

\* the document doc after a plan update with body bp handled at tp and a
\* profile update with body bf, lastLogin being that of either request
BothEffects(doc, bp, tp, bf) ==
    {[doc EXCEPT !.plan = ClaimedPlan(bp, tp),
                 !.displayName = IF bf.displayName = Undefined THEN @ ELSE bf.displayName,
                 !.photoURL = IF bf.photoURL = Undefined THEN @ ELSE bf.photoURL,
                 !.lastLogin = toISOString(t)] : t \in RaceTimes}

(* C19: when a plan update and a profile update of one stored user are in
   flight together, whichever write lands first, both are answered 200 and
   the document after both has the plan the plan update built and the
   displayName / photoURL the profile update supplied, everything else as
   before; lastLogin is the one of the write that landed last. *)
C19_BothUpdatesSurvive ==
    /\ [][\A p \in Procs :
             /\ (Lands(p, "updatePlan") \/ Lands(p, "updateProfile")) =>
                   /\ req'[p].applied
                   /\ store'[req[p].user.uid].lastLogin = req[p].data.lastLogin
             /\ (Replies(p, "updatePlan") \/ Replies(p, "updateProfile")) =>
                   res'.status = 200]_vars
    /\ \A doc \in RaceDocs, bp \in RacePlanBodies, tp \in RaceTimes, bf \in ProfileBodies :
          [](\A p, q \in Procs :
                (/\ store[Str("u1")] = doc
                 /\ req[p] # Idle /\ req[p].handler = "updatePlan"
                 /\ req[p].body = bp /\ req[p].data.plan.lastUpdated = toISOString(tp)
                 /\ req[q] # Idle /\ req[q].handler = "updateProfile"
                 /\ req[q].body = bf)
                    => [](RaceDone => store[Str("u1")] \in BothEffects(doc, bp, tp, bf)))

\* the profile write landed first and the plan write last: the name and the
\* new plan are both stored, lastLogin is the plan update's
C19_Witness ==
    /\ RaceDone
    /\ res # NoResponse
    /\ res.handler = "updatePlan"
    /\ res.status = 200
    /\ store[Str("u1")].displayName = Str("Ann")
    /\ store[Str("u1")].plan.type = Str("pro")
    /\ store[Str("u1")].plan.stripeCustomerId = Str("cus_123")
    /\ store[Str("u1")].lastLogin = toISOString(1000)
    /\ store[Str("u1")].plan.lastUpdated = toISOString(1000)

----------------------------------------------------------------------------
(* Whose document a request touches *)

\* the subject id of the token the answered request presented
TokenUid == Presented(res'.hdr).jwt.payload.uid

(* C20: a request authenticated as u reads and writes only the document
   keyed by the uid of its verified token, whatever uid its body names: a
   step changes a document only when it is the write of a request whose
   token carries that document's key, every stored document has its key as uid,
   and every read is a read of the document of the token's uid: the
   profile and stats answers are taken from it (404 when it is missing),
   and so is the existence check of a create. *)
C20_OnlyOwnDocument ==
    [][/\ \A id \in UidVals :
             /\ store'[id] # store[id] =>
                   \E p \in Procs :
                       /\ req[p] # Idle
                       /\ req[p].pc \in {"set", "update"}
                       /\ req'[p] # Idle /\ req'[p].pc = "written"
                       /\ Verifies(Presented(req[p].hdr), clock)
                       /\ Presented(req[p].hdr).jwt.payload.uid = id
             /\ store'[id] # NoDoc => store'[id].uid = id
       /\ \A p \in Procs :
             /\ (req[p] # Idle /\ req[p].pc = "get" /\ req'[p] # Idle /\ req'[p].pc = "got") =>
                   LET own == Presented(req[p].hdr).jwt.payload.uid
                   IN  req'[p].snap \in {store[own], GetFailed}
             /\ (Answers(p, "getProfile") \/ Answers(p, "getStats")) =>
                   LET own == req[p].snap IN
                   /\ res'.status = IF own = GetFailed THEN 500
                                     ELSE IF own = NoDoc THEN 404 ELSE 200
                   /\ (res'.status = 200 /\ res'.handler = "getProfile") =>
                         /\ res'.out.uid = TokenUid
                         /\ res'.out.plan = own.plan
                         /\ res'.out.createdAt = own.createdAt
                         /\ res'.out.displayName = own.displayName
                   /\ (res'.status = 200 /\ res'.handler = "getStats") =>
                         /\ res'.out.planType = own.plan.type
                         /\ res'.out.memberSince = own.createdAt
             /\ Answers(p, "createUser") =>
                   res'.status = IF req[p].snap = GetFailed THEN 500 ELSE 409]_vars

\* u1 created its document with a body that names u2: the document is stored
\* under u1, and u2 still has none
C20_Witness ==
    /\ res # NoResponse
    /\ res.handler = "createUser"
    /\ res.status = 201
    /\ res.user.uid = Str("u1")
    /\ res.body.uid = Str("u2")
    /\ store[Str("u1")] # NoDoc
    /\ store[Str("u1")].uid = Str("u1")
    /\ store[Str("u2")] = NoDoc

====
